---- MODULE Spec2Model ----
(***************************************************************************)
(* Model of the ResearchAgent tools:                                       *)
(*   - searchTopics          (Tools/SearchTool.py, Tools/AdvSearchTools.py) *)
(*   - is_scraping_allowed,                                                *)
(*     scrape_website_text   (Tools/WebScraperTool.py)                     *)
(*   - get_latest_news_text  (Tools/All.py)                                *)
(* Strings the code builds by concatenation are sequences of pieces; text  *)
(* that is sliced is a sequence of characters.                             *)
(***************************************************************************)
EXTENDS Integers, Sequences, FiniteSets, TLC

\* ------------------------------------------------------------------ bounds
MaxQueries == 2
MaxCalls == 2
MaxArticles == 2      \* largest num_articles tried
MaxChars == 1         \* largest max_chars_per_article tried
MaxStream == 3        \* longest result stream of the search provider
MaxText == 2          \* longest scraped text
MaxNumResults == 3    \* largest num_results tried
MaxUrls == 2          \* longest urls list given to scrape_webpages

\* ------------------------------------------------------------ state
VARIABLES
    \* searchTopics
    queryList,      \* the argument
    Headline,       \* result of search.batch
    AdvSearch,      \* result of searchWider.batch
    min_len,
    i,              \* loop variable of `for i in range(min_len)` (next value)
    output,
    failedQ,        \* indices of the queries the provider failed on
    aggPc,
    aggRet          \* value returned by searchTopics

aggVars == <<queryList, Headline, AdvSearch, min_len, i, output, failedQ, aggPc, aggRet>>

VARIABLES
    \* WebScraperTool.py
    rp,             \* the module-level RobotFileParser
    site,           \* what each host answers for /robots.txt
    curUrl,         \* argument of the running scrape_website_text call
    allowed,        \* value returned by is_scraping_allowed
    webRet,         \* value returned by scrape_website_text
    webPc,
    calls,          \* scrape_website_text calls started
    checks,         \* is_scraping_allowed calls per host
    robotsFetches,  \* robots.txt requests sent per host
    gets,           \* content GETs sent per URL
    getIssued,      \* the running call has sent its content GET
    response,           \* what the content GET of the running call met
    log             \* warnings and errors the running call printed

webVars == <<rp, site, curUrl, allowed, webRet, webPc, calls, checks,
             robotsFetches, gets, getIssued, response, log>>

VARIABLES
    \* All.py, get_latest_news_text
    num_articles,
    max_chars_per_article,
    search_results,
    pos,                        \* index of the next element of search_results
    articles,                   \* combined_text, one entry per article added
    articles_processed_count,
    urls_processed,
    colRet,                     \* value returned by get_latest_news_text
    colPc,
    fetchCount,                 \* scrape_website_text calls per URL
    scraped_content,            \* what the last scrape_website_text call returned
    sleeps,                     \* time.sleep(0.5) calls made
    attempts                    \* the "added" / "failed" line printed per attempt

colVars == <<num_articles, max_chars_per_article, search_results, pos, articles,
             articles_processed_count, urls_processed, colRet, colPc, fetchCount,
             scraped_content, sleeps, attempts>>

VARIABLES
    \* the extraction part of scrape_website_text, on its own
    doc,            \* the elements of the HTML source
    tree,           \* the elements of the parsed and stripped document
    region,         \* main_content / body
    extRet,         \* what the extraction returns
    extPc

extVars == <<doc, tree, region, extRet, extPc>>

VARIABLES
    \* search_web_ddg (All.py, DuckSearch.py)
    num_results,
    stream,         \* what ddgs.text will yield, in order
    failAt,         \* the provider raises instead of yielding item failAt (0: never)
    results,
    ddgI,           \* the enumerate index i of the next item
    ddgRet,
    ddgPc

ddgVars == <<num_results, stream, failAt, results, ddgI, ddgRet, ddgPc>>

VARIABLES
    \* is_scraping_allowed called from several threads
    thrUrl,         \* argument of each thread's call
    thrPc,
    thrAllowed      \* value each call returned

conVars == <<thrUrl, thrPc, thrAllowed>>

VARIABLES
    \* scrape_webpages (WebScraperTool.py)
    urls,           \* the argument
    url_idx,        \* position in `for url in urls` of the next URL
    content,        \* what scrape_website_text(url) returned
    page_results,   \* the list `results`
    outcomes,       \* how each scrape_website_text call of the run ended
    pgRet,          \* value returned by scrape_webpages
    pgPc

pgVars == <<urls, url_idx, content, page_results, outcomes, pgRet, pgPc>>

vars == <<aggVars, webVars, colVars, extVars, ddgVars, conVars, pgVars>>

\* the variables an operation of one tool leaves alone
notAgg == <<webVars, colVars, extVars, ddgVars, conVars, pgVars>>
notWeb == <<aggVars, colVars, extVars, ddgVars, conVars, pgVars>>
notCol == <<aggVars, webVars, extVars, ddgVars, conVars, pgVars>>
notExt == <<aggVars, webVars, colVars, ddgVars, conVars, pgVars>>
notDdg == <<aggVars, webVars, colVars, extVars, conVars, pgVars>>
notCon == <<aggVars, colVars, extVars, ddgVars, pgVars>>
notPg == <<aggVars, colVars, extVars, ddgVars, conVars>>

\* ------------------------------------------------------------ helpers
Min(a, b) == IF a < b THEN a ELSE b

BoundedSeq(S, n) == UNION {[1..k -> S] : k \in 0..n}

\* =====================================================================
\*  searchTopics  (SearchTool.py and AdvSearchTools.py hold the same code)
\* =====================================================================
Queries == {"q1", "q2"}

\* what the provider answers for one query: nothing, or some text
Answers == {"", "ans"}

HdrOpen     == "--- Results for Query: '"
HdrClose    == "' ---\n"
TopAnswer   == "Top Answer - "
OtherSrc    == "Other Sources - "
NoResults   == "No search results found for the queries: "
BatchError  == "An error occurred during batch search: "

\* `not s` for a string held as a sequence of pieces
IsEmptyStr(s) == \A k \in 1..Len(s) : s[k] = ""

\* ', '.join(queryList)
RECURSIVE Join(_)
Join(qs) ==
    IF qs = <<>> THEN <<>>
    ELSE IF Len(qs) = 1 THEN <<qs[1]>>
    ELSE <<qs[1], ", ">> \o Join(Tail(qs))

\* lines 43-48: the text one loop iteration appends
SectionText(q, h, a, last) ==
    <<HdrOpen, q, HdrClose, TopAnswer, h, "\n", OtherSrc, a>>
        \o (IF last THEN <<>> ELSE <<"\n\n">>)

\* line 50: `if not output and queryList`
NoResultsGuard_NoNote(out, qs) == ~IsEmptyStr(out) /\ qs # <<>>
NoResultsGuard(out, qs) == IsEmptyStr(out) /\ qs # <<>>

AggInit ==
    /\ queryList \in BoundedSeq(Queries, MaxQueries)
    /\ Headline = <<>>
    /\ AdvSearch = <<>>
    /\ min_len = 0
    /\ i = 0
    /\ output = <<>>
    /\ failedQ = {}
    /\ aggPc = "headline"
    /\ aggRet = <<>>

\* line 30: Headline = search.batch(queryList).  Runnable.batch re-raises the
\* exception of any failing query; otherwise it returns a list.  The code
\* (line 37) allows for a list shorter than queryList, so does the model.
HeadlineBatch ==
    /\ aggPc = "headline"
    /\ \E f \in SUBSET (1..Len(queryList)) :
          IF f # {}
          THEN /\ failedQ' = f
               /\ aggPc' = "except"
               /\ UNCHANGED Headline
          ELSE /\ \E r \in BoundedSeq(Answers, Len(queryList)) : Headline' = r
               /\ aggPc' = "adv"
               /\ UNCHANGED failedQ
    /\ UNCHANGED <<queryList, AdvSearch, min_len, i, output, aggRet>>
    /\ UNCHANGED notAgg

\* line 33: AdvSearch = searchWider.batch(queryList, num_results=num_results)
AdvSearchBatch ==
    /\ aggPc = "adv"
    /\ \E f \in SUBSET (1..Len(queryList)) :
          IF f # {}
          THEN /\ failedQ' = f
               /\ aggPc' = "except"
               /\ UNCHANGED AdvSearch
          ELSE /\ \E r \in BoundedSeq(Answers, Len(queryList)) : AdvSearch' = r
               /\ aggPc' = "minlen"
               /\ UNCHANGED failedQ
    /\ UNCHANGED <<queryList, Headline, min_len, i, output, aggRet>>
    /\ UNCHANGED notAgg

\* line 37
ComputeMinLen ==
    /\ aggPc = "minlen"
    /\ min_len' = Min(Len(queryList), Min(Len(Headline), Len(AdvSearch)))
    /\ i' = 0
    /\ aggPc' = "loop"
    /\ UNCHANGED <<queryList, Headline, AdvSearch, output, failedQ, aggRet>>
    /\ UNCHANGED notAgg

\* lines 39-48, one iteration (i is 0-based as in the code)
LoopBody ==
    /\ aggPc = "loop"
    /\ i < min_len
    /\ output' = output \o SectionText(queryList[i + 1], Headline[i + 1],
                                       AdvSearch[i + 1], ~(i < min_len - 1))
    /\ i' = i + 1
    /\ UNCHANGED <<queryList, Headline, AdvSearch, min_len, failedQ, aggPc, aggRet>>
    /\ UNCHANGED notAgg

\* lines 50-51
AfterLoop ==
    /\ aggPc = "loop"
    /\ i >= min_len
    /\ output' = IF NoResultsGuard(output, queryList)
                 THEN <<NoResults>> \o Join(queryList)
                 ELSE output
    /\ aggPc' = "return"
    /\ UNCHANGED <<queryList, Headline, AdvSearch, min_len, i, failedQ, aggRet>>
    /\ UNCHANGED notAgg

\* lines 54-57
HandleException ==
    /\ aggPc = "except"
    /\ output' = <<BatchError, "e">>
    /\ aggPc' = "return"
    /\ UNCHANGED <<queryList, Headline, AdvSearch, min_len, i, failedQ, aggRet>>
    /\ UNCHANGED notAgg

\* line 59
ReturnOutput ==
    /\ aggPc = "return"
    /\ aggRet' = output
    /\ aggPc' = "done"
    /\ UNCHANGED <<queryList, Headline, AdvSearch, min_len, i, output, failedQ>>
    /\ UNCHANGED notAgg

AggNext ==
    \/ HeadlineBatch
    \/ AdvSearchBatch
    \/ ComputeMinLen
    \/ LoopBody
    \/ AfterLoop
    \/ HandleException
    \/ ReturnOutput

\* ---- reading a report back
\* the queries of the sections of a report, in order
RECURSIVE SectionQueries(_)
SectionQueries(out) ==
    IF Len(out) < 2 THEN <<>>
    ELSE IF Head(out) = HdrOpen
         THEN <<out[2]>> \o SectionQueries(Tail(Tail(out)))
         ELSE SectionQueries(Tail(out))

\* the "Other Sources" texts of the sections of a report, in order
RECURSIVE SectionSources(_)
SectionSources(out) ==
    IF Len(out) < 2 THEN <<>>
    ELSE IF Head(out) = OtherSrc
         THEN <<out[2]>> \o SectionSources(Tail(Tail(out)))
         ELSE SectionSources(Tail(out))

\* C1: searchTopics returns exactly len(queryList) sections, section i being
\* the one for queryList[i], whatever the provider did.
C1_OneSectionPerQuery ==
    aggPc = "done" => SectionQueries(aggRet) = queryList

\* C8: when the provider fails on some queries of a batch, every query still
\* has its section, and the failing queries' sections have empty results.
C8_FailureDoesNotAbortBatch ==
    (aggPc = "done" /\ failedQ # {}) =>
        /\ SectionQueries(aggRet) = queryList
        /\ \A k \in failedQ : SectionSources(aggRet)[k] = ""

\* C9 (as stated): searchTopics never returns the empty string.
C9_NeverEmptyString ==
    aggPc = "done" => ~IsEmptyStr(aggRet)

\* C9 (amended): the returned string is empty exactly for the empty query
\* list; for a non-empty list it is a sequence of sections, the explicit
\* no-results note or the explicit batch-error note.
C9_EmptyOnlyForEmptyList ==
    aggPc = "done" =>
        /\ IsEmptyStr(aggRet) <=> queryList = <<>>
        /\ queryList # <<>> =>
              \/ Head(aggRet) = HdrOpen
              \/ aggRet = <<NoResults>> \o Join(queryList)
              \/ Head(aggRet) = BatchError

C9_Witness ==
    /\ aggPc = "done"
    /\ queryList # <<>>
    /\ min_len = 0
    /\ failedQ = {}
    /\ aggRet = <<NoResults>> \o Join(queryList)

\* =====================================================================
\*  main-content extraction  (WebScraperTool.py lines 95-134,
\*  All.py lines 74-108 hold the same code)
\* =====================================================================
\* An HTML source is the set of the elements it holds outside any stripped
\* element.  "text" is loose text, "body" an explicit <body> tag.
Containers ==
    {"article", "main", "id=content", "class=content", "id=main-content",
     "class=main-content", "id=post-content", "class=post-content",
     "id=entry-content", "class=entry-content", "role=main"}
Stripped == {"nav", "script"}       \* two of the tags of line 104
HeadContent == {"script"}           \* what the parser files under <head>
\* a text node whose words are about robots.txt
QuoteNode == "this path is disallowed by robots.txt"
Elements == Containers \cup Stripped \cup {"text", QuoteNode, "body"}

\* BeautifulSoup(response.content, 'lxml') (line 97): the lxml tree builder
\* wraps anything that is not head content in <html><body>
Parse(elems) ==
    IF elems \ HeadContent # {} THEN elems \cup {"body"} ELSE elems

\* lines 104-105: tag.decompose() for every stripped tag
Decompose(elems) == elems \ Stripped

\* lines 108-114: the chain of soup.find(...) or soup.find(...)
FindOrder_Swapped ==
    <<"main", "article", "id=content", "id=main-content", "class=post-content",
      "class=entry-content", "role=main">>
FindOrder ==
    <<"article", "main", "id=content", "id=main-content", "class=post-content",
      "class=entry-content", "role=main">>

\* `a or b or ...` over the finds from position k on; a Tag is always truthy
RECURSIVE FirstFound(_, _, _)
FirstFound(order, k, elems) ==
    IF k > Len(order) THEN "none"
    ELSE IF order[k] \in elems THEN order[k]
    ELSE FirstFound(order, k + 1, elems)

\* lines 108-116: main_content if main_content else soup.find('body')
SelectRegion(elems) ==
    LET main_content == FirstFound(FindOrder, 1, elems) IN
    IF main_content # "none" THEN main_content
    ELSE IF "body" \in elems THEN "body"
    ELSE "none"

\* the order of the elements in the source
DocOrder ==
    <<"article", "main", "id=content", "class=content", "id=main-content",
      "class=main-content", "id=post-content", "class=post-content",
      "id=entry-content", "class=entry-content", "role=main", "text",
      QuoteNode>>

RECURSIVE TextOf(_, _)
TextOf(k, elems) ==
    IF k > Len(DocOrder) THEN <<>>
    ELSE (IF DocOrder[k] \in elems THEN <<DocOrder[k]>> ELSE <<>>)
             \o TextOf(k + 1, elems)

\* lines 123-126: body.get_text(...), cleaned.  A container yields its own
\* text, the body the text of everything left in it.
RegionText(r, elems) == IF r = "body" THEN TextOf(1, elems) ELSE <<r>>

NoneRet == [isNone |-> TRUE, s |-> <<>>]
StrRet(t) == [isNone |-> FALSE, s |-> t]

\* lines 118-134: None without a region, else the text, however short
ExtractResult_EmptyIsFailure(r, elems) ==
    IF r = "none" \/ RegionText(r, elems) = <<>> THEN NoneRet
    ELSE StrRet(RegionText(r, elems))
ExtractResult(r, elems) ==
    IF r = "none" THEN NoneRet ELSE StrRet(RegionText(r, elems))

ExtInit ==
    /\ doc \in SUBSET Elements
    /\ tree = {}
    /\ region = "none"
    /\ extRet = NoneRet
    /\ extPc = "parse"

\* lines 95-105
ExtParseAndStrip ==
    /\ extPc = "parse"
    /\ tree' = Decompose(Parse(doc))
    /\ extPc' = "select"
    /\ UNCHANGED <<doc, region, extRet>>
    /\ UNCHANGED notExt

\* lines 108-116
ExtSelect ==
    /\ extPc = "select"
    /\ region' = SelectRegion(tree)
    /\ extPc' = "selected"
    /\ UNCHANGED <<doc, tree, extRet>>
    /\ UNCHANGED notExt

\* lines 118-134
ExtReturn ==
    /\ extPc = "selected"
    /\ extRet' = ExtractResult(region, tree)
    /\ extPc' = "done"
    /\ UNCHANGED <<doc, tree, region>>
    /\ UNCHANGED notExt

ExtNext ==
    \/ ExtParseAndStrip
    \/ ExtSelect
    \/ ExtReturn

\* ---- the priority list as the claim reads it: a name is matched as id or
\* as class
NameOf(e) ==
    IF e \in {"id=content", "class=content"} THEN "content"
    ELSE IF e \in {"id=main-content", "class=main-content"} THEN "main-content"
    ELSE IF e \in {"id=post-content", "class=post-content"} THEN "post-content"
    ELSE IF e \in {"id=entry-content", "class=entry-content"} THEN "entry-content"
    ELSE e

NamePriority ==
    <<"article", "main", "content", "main-content", "post-content",
      "entry-content", "role=main", "body">>

\* position of x in the sequence s (0 when absent)
IndexIn(s, x) ==
    IF \E k \in 1..Len(s) : s[k] = x
    THEN CHOOSE k \in 1..Len(s) : s[k] = x
    ELSE 0

\* C13 (as stated): the selected region is the first present one in the
\* order article, main, content, main-content, post-content, entry-content
\* (each as id or class), role=main, body.
C13_PriorityByIdOrClass ==
    extPc \in {"selected", "done"} =>
        LET present == {NameOf(e) : e \in tree} IN
        /\ region = "none" <=> \A k \in 1..Len(NamePriority) : NamePriority[k] \notin present
        /\ region # "none" =>
              /\ NameOf(region) \in present
              /\ \A k \in 1..Len(NamePriority) :
                    k < IndexIn(NamePriority, NameOf(region)) => NamePriority[k] \notin present

\* what the code looks for, in its order: content and main-content by id
\* only, post-content and entry-content by class only
CodePriority ==
    <<"article", "main", "id=content", "id=main-content", "class=post-content",
      "class=entry-content", "role=main", "body">>

\* C13 (amended): the selected region is the first present one in the order
\* article, main, id=content, id=main-content, class=post-content,
\* class=entry-content, role=main, body; no lower one is chosen when a higher
\* one is present, and there is no region only when none of the eight is.
C13_PriorityAsCoded ==
    extPc \in {"selected", "done"} =>
        /\ region = "none" <=> \A k \in 1..Len(CodePriority) : CodePriority[k] \notin tree
        /\ region # "none" =>
              /\ region \in tree
              /\ IndexIn(CodePriority, region) > 0
              /\ \A k \in 1..Len(CodePriority) :
                    k < IndexIn(CodePriority, region) => CodePriority[k] \notin tree

C13_Witness ==
    /\ extPc = "done"
    /\ {"article", "main", "class=content", "role=main"} \subseteq tree
    /\ region = "article"

\* C14 (as stated): a source holding only stripped elements (nav, script)
\* gives None.
C14_StrippedOnlyIsFailure ==
    (extPc = "done" /\ doc # {} /\ doc \subseteq Stripped) => extRet.isNone

\* C14 (amended): a source holding only stripped elements gives None exactly
\* when the parsed tree has no body (script alone); when the parser supplied
\* a body (nav), the result is the empty text.
C14_StrippedOnlyFailsWithoutBody ==
    (extPc = "done" /\ doc # {} /\ doc \subseteq Stripped) =>
        /\ extRet.isNone <=> "body" \notin tree
        /\ ~extRet.isNone => extRet.s = <<>>
        /\ "nav" \in doc => extRet = StrRet(<<>>)

C14_Witness ==
    /\ extPc = "done"
    /\ doc = {"nav", "script"}
    /\ extRet = StrRet(<<>>)

\* =====================================================================
\*  is_scraping_allowed, scrape_website_text  (WebScraperTool.py)
\* =====================================================================
Hosts == {"h1", "h2"}

\* a path (with its query) is a sequence of characters; <<>> is the empty path
Paths == {<<>>, <<"/", "a">>, <<"/", "b">>}

\* a URL that urlparse takes apart ...
GoodUrls == [host : Hosts, path : Paths, bad : {FALSE}]
\* ... and one it raises ValueError on (e.g. "http://[x")
BadUrl == [host |-> "", path |-> <<>>, bad |-> TRUE]
Urls == GoodUrls \cup {BadUrl}

UrlStr(u) == <<u.host>> \o u.path

\* rule lines of a `User-agent: *` group
RuleLine(p, a) == [path |-> p, allowance |-> a]
DisallowA   == <<RuleLine(<<"/", "a">>, FALSE)>>
DisallowAll == <<RuleLine(<<"/">>, FALSE)>>
AllowAOnly  == <<RuleLine(<<"/", "a">>, TRUE), RuleLine(<<"/">>, FALSE)>>
RuleSets == {DisallowA, DisallowAll, AllowAOnly}

Forbidden == 403
NotFound == 404
ServerError == 500

\* what a host answers for GET /robots.txt
RobotsResponses ==
    {[kind |-> "neterr", code |-> 0, rules |-> <<>>]}        \* URLError
    \cup {[kind |-> "http", code |-> c, rules |-> <<>>] :
              c \in {Forbidden, NotFound, ServerError}}      \* HTTPError
    \cup {[kind |-> "badenc", code |-> 0, rules |-> <<>>]}   \* body is not UTF-8
    \cup {[kind |-> "malformed", code |-> 0, rules |-> <<>>]} \* no parseable line
    \cup {[kind |-> "ok", code |-> 0, rules |-> r] : r \in RuleSets}

\* str.startswith
StartsWith(s, pre) ==
    /\ Len(pre) <= Len(s)
    /\ \A k \in 1..Len(pre) : s[k] = pre[k]

\* robotparser.RuleLine.applies_to
AppliesTo(line, filename) == line.path = <<"*">> \/ StartsWith(filename, line.path)

\* robotparser.Entry.allowance: the first rule line that applies decides
RECURSIVE Allowance(_, _)
Allowance(rulelines, filename) ==
    IF rulelines = <<>> THEN TRUE
    ELSE IF AppliesTo(Head(rulelines), filename)
         THEN Head(rulelines).allowance
         ELSE Allowance(Tail(rulelines), filename)

\* the parser as RobotFileParser() leaves it (line 14)
\* default_entry is None until a `*` group is added
NoEntry == [set |-> FALSE, rulelines |-> <<>>]
Entry(rulelines) == [set |-> TRUE, rulelines |-> rulelines]
FreshParser ==
    [host |-> "", disallow_all |-> FALSE, allow_all |-> FALSE,
     last_checked |-> FALSE, default_entry |-> NoEntry]

\* rp.set_url (line 34): only url, host and path are set
SetUrl(p, h) == [p EXCEPT !.host = h]

\* rp.read (line 39) when it does not raise.  RobotFileParser.read sets
\* disallow_all on 401/403, allow_all on other 4xx, nothing on other HTTP
\* errors; on 200 it parses: parse() stamps last_checked and _add_entry keeps
\* the first `*` group it ever saw ("the first default entry wins").  Nothing
\* resets these fields between two reads of the same parser object.
ReadParser(p, resp) ==
    IF resp.kind = "http"
    THEN IF resp.code = Forbidden THEN [p EXCEPT !.disallow_all = TRUE]
         ELSE IF resp.code >= 400 /\ resp.code < 500
              THEN [p EXCEPT !.allow_all = TRUE]
              ELSE p
    ELSE IF resp.kind = "ok"
         THEN [p EXCEPT !.last_checked = TRUE,
                        !.default_entry = IF ~p.default_entry.set
                                          THEN Entry(resp.rules) ELSE @]
         ELSE [p EXCEPT !.last_checked = TRUE]

\* rp.read raises: urlopen fails below HTTP, or the body does not decode
ReadRaises(resp) == resp.kind \in {"neterr", "badenc"}

\* lines 48-50: path = parsed_url.path if parsed_url.path else '/'
CheckedPath(u) == IF u.path = <<>> THEN <<"/">> ELSE u.path

\* rp.can_fetch('*', path) (line 52).  Groups of named agents never apply to
\* the agent '*', so only the default entry is kept in the model.
CanFetch(p, path) ==
    IF p.disallow_all THEN FALSE
    ELSE IF p.allow_all THEN TRUE
    ELSE IF ~p.last_checked THEN FALSE
    ELSE IF p.default_entry.set THEN Allowance(p.default_entry.rulelines, path)
    ELSE TRUE

\* line 80
DisallowedMsg(u) ==
    <<"Scraping of ">> \o UrlStr(u) \o <<" is disallowed by robots.txt.">>

\* ---- the content GET (lines 86-144)
\* HTML sources a page may consist of
WebDocs == {{"script"}, {"nav"}, {"text"}, {"article", "text"}, {QuoteNode}}

Response(k, c, d) == [kind |-> k, code |-> c, doc |-> d]
NoResponse == Response("none", 0, {})

\* what requests.get(url, timeout=timeout) and the parser can meet:
\*   timeout      no answer within `timeout` seconds
\*   connerr      the connection fails, or the URL is not a valid one
\*   status       an answer with a 4xx or 5xx status
\*   nonhtml      a 200 answer whose Content-Type is not text/html
\*   parse_error  BeautifulSoup raises (bs4.FeatureNotFound is an example)
\*   html         a 200 answer with an HTML source
Responses ==
    {Response("timeout", 0, {}), Response("connerr", 0, {}),
     Response("status", NotFound, {}), Response("status", ServerError, {}),
     Response("nonhtml", 200, {}), Response("parse_error", 200, {})}
    \cup {Response("html", 200, d) : d \in WebDocs}

\* the parsed and stripped tree of an HTML answer (lines 97-105)
TreeOf(r) == Decompose(Parse(r.doc))

\* the failure a response ends in; "none" when text is extracted
FaultOf(r) ==
    CASE r.kind = "timeout" -> "Timeout"
      [] r.kind = "connerr" -> "ConnectionError"
      [] r.kind = "status" -> "HttpError"
      [] r.kind = "nonhtml" -> "UnsupportedContentType"
      [] r.kind = "parse_error" -> "Unexpected"
      [] r.kind = "html" ->
            IF SelectRegion(TreeOf(r)) = "none" THEN "ParseFailure" ELSE "none"
      [] OTHER -> "none"

\* the exception raised inside the try block of lines 86-134, by the class
\* of the handler chain that matters ("none": nothing is raised)
RaisedBy(r) ==
    CASE r.kind = "timeout" -> "Timeout"                 \* line 87
      [] r.kind = "connerr" -> "RequestException"        \* line 87
      [] r.kind = "status" -> "RequestException"         \* line 88, HTTPError
      [] r.kind = "parse_error" -> "Exception"           \* line 97
      [] OTHER -> "none"

\* lines 136-144: the three except clauses
Caught_NoCatchAll(e) == e \in {"Timeout", "RequestException"}
Caught(e) == e \in {"Timeout", "RequestException", "Exception"}

\* lines 93, 120, 138, 141, 144: what a failed scrape returns
FailureRet_Typed(f) == StrRet(<<f>>)
FailureRet(f) == NoneRet

\* the message printed for a failure (lines 92, 119, 137, 140, 143); the
\* text of a RequestException names the status of an HTTP error
MessageOf(r) ==
    CASE r.kind = "timeout" -> "timed_out"
      [] r.kind = "connerr" -> "error_fetching: connection"
      [] r.kind = "status" ->
            IF r.code = NotFound THEN "error_fetching: 404"
            ELSE "error_fetching: 500"
      [] r.kind = "nonhtml" -> "not_html_skipping"
      [] r.kind = "parse_error" -> "error_scraping"
      [] OTHER -> "no_body_tag"

\* the value scrape_website_text returns once the GET met r
ScrapeOutcome(r) ==
    IF FaultOf(r) = "none"
    THEN ExtractResult(SelectRegion(TreeOf(r)), TreeOf(r))
    ELSE FailureRet(FaultOf(r))

LogEntry(k, u) == [kind |-> k, url |-> u]

WebInit ==
    /\ rp = FreshParser
    /\ site \in [Hosts -> RobotsResponses]
    /\ curUrl = BadUrl
    /\ allowed = FALSE
    /\ webRet = NoneRet
    /\ webPc = "idle"
    /\ calls = 0
    /\ checks = [h \in Hosts |-> 0]
    /\ robotsFetches = [h \in Hosts |-> 0]
    /\ gets = [u \in Urls |-> 0]
    /\ getIssued = FALSE
    /\ response = NoResponse
    /\ log = <<>>

\* a caller (scrape_webpages line 166) calls scrape_website_text(url);
\* line 79 enters is_scraping_allowed(url)
EnterScrape(u) ==
    /\ webPc \in {"idle", "returned"}
    /\ curUrl' = u
    /\ checks' = IF u.bad THEN checks
                 ELSE [checks EXCEPT ![u.host] = @ + 1]
    /\ calls' = calls + 1
    /\ getIssued' = FALSE
    /\ webRet' = NoneRet
    /\ response' = NoResponse
    /\ log' = <<>>
    /\ webPc' = "robots_read"
    /\ UNCHANGED <<rp, site, allowed, robotsFetches, gets>>

WebCall ==
    /\ calls < MaxCalls
    /\ \E u \in Urls : EnterScrape(u)
    /\ UNCHANGED notWeb

\* lines 27-45 and 59-62: urlparse, rp.set_url, rp.read and the two handlers
ReadRobotsTxt ==
    /\ webPc = "robots_read"
    /\ IF curUrl.bad
       THEN \* urlparse raises: the outer handler, lines 59-62
            /\ log' = Append(log, LogEntry("check_error", curUrl))
            /\ allowed' = TRUE
            /\ webPc' = "decided"
            /\ UNCHANGED <<rp, robotsFetches>>
       ELSE /\ robotsFetches' = [robotsFetches EXCEPT ![curUrl.host] = @ + 1]
            /\ IF ReadRaises(site[curUrl.host])
               THEN \* lines 40-45
                    /\ rp' = SetUrl(rp, curUrl.host)
                    /\ log' = Append(log, LogEntry("robots_unreadable", curUrl))
                    /\ allowed' = TRUE
                    /\ webPc' = "decided"
               ELSE /\ rp' = ReadParser(SetUrl(rp, curUrl.host), site[curUrl.host])
                    /\ webPc' = "can_fetch"
                    /\ UNCHANGED <<log, allowed>>
    /\ UNCHANGED <<site, curUrl, webRet, calls, checks, gets, getIssued, response>>
    /\ UNCHANGED notWeb

\* the same with a per-host cache in front of rp.read
RobotsRead_Cached ==
    IF webPc = "robots_read" /\ ~curUrl.bad /\ robotsFetches[curUrl.host] > 0
    THEN /\ webPc' = "can_fetch"
         /\ UNCHANGED <<rp, site, curUrl, allowed, webRet, calls, checks,
                        robotsFetches, gets, getIssued, response, log>>
         /\ UNCHANGED notWeb
    ELSE ReadRobotsTxt

RobotsRead == ReadRobotsTxt

\* lines 48-57
RobotsCanFetch ==
    /\ webPc = "can_fetch"
    /\ allowed' = CanFetch(rp, CheckedPath(curUrl))
    /\ log' = IF allowed' THEN log
              ELSE Append(log, LogEntry("disallowed", curUrl))
    /\ webPc' = "decided"
    /\ UNCHANGED <<rp, site, curUrl, webRet, calls, checks, robotsFetches,
                   gets, getIssued, response>>
    /\ UNCHANGED notWeb

\* lines 79-80
ReturnDisallowed ==
    /\ webPc = "decided"
    /\ ~allowed
    /\ webRet' = StrRet(DisallowedMsg(curUrl))
    /\ webPc' = "returned"
    /\ UNCHANGED <<rp, site, curUrl, allowed, calls, checks, robotsFetches,
                   gets, getIssued, response, log>>
    /\ UNCHANGED notWeb

\* line 87: requests.get(url, ...) is sent and meets one of the responses
ContentGet ==
    /\ webPc = "decided"
    /\ allowed
    /\ gets' = [gets EXCEPT ![curUrl] = @ + 1]
    /\ getIssued' = TRUE
    /\ \E r \in Responses :
          /\ curUrl.bad => r.kind = "connerr"
          /\ response' = r
    /\ webPc' = "got"
    /\ UNCHANGED <<rp, site, curUrl, allowed, webRet, calls, checks,
                   robotsFetches, log>>
    /\ UNCHANGED notWeb

\* lines 88-134: the page is extracted and its text returned
ReturnText ==
    /\ webPc = "got"
    /\ FaultOf(response) = "none"
    /\ webRet' = ScrapeOutcome(response)
    /\ webPc' = "returned"
    /\ UNCHANGED <<rp, site, curUrl, allowed, calls, checks, robotsFetches,
                   gets, getIssued, response, log>>
    /\ UNCHANGED notWeb

\* lines 91-93, 118-120, 136-144: a failure prints its message and returns
\* None; an exception no except clause takes leaves the function
ReturnNone ==
    /\ webPc = "got"
    /\ FaultOf(response) # "none"
    /\ IF RaisedBy(response) = "none" \/ Caught(RaisedBy(response))
       THEN /\ webRet' = ScrapeOutcome(response)
            /\ log' = Append(log, LogEntry(MessageOf(response), curUrl))
            /\ webPc' = "returned"
       ELSE /\ webPc' = "raised"
            /\ UNCHANGED <<webRet, log>>
    /\ UNCHANGED <<rp, site, curUrl, allowed, calls, checks, robotsFetches,
                   gets, getIssued, response>>
    /\ UNCHANGED notWeb

WebNext ==
    \/ WebCall
    \/ RobotsRead
    \/ RobotsCanFetch
    \/ ReturnDisallowed
    \/ ContentGet
    \/ ReturnText
    \/ ReturnNone

\* ---- what the hosts publish
\* the robots.txt that host h serves disallows path p for agent '*'
HostDisallows(h, p) ==
    /\ site[h].kind = "ok"
    /\ ~Allowance(site[h].rules, p)

\* fetching or parsing robots.txt of host h fails
RobotsFails(h) == site[h].kind # "ok"

\* C2: a URL that its host's robots.txt disallows for '*' gets the Disallowed
\* outcome and no content GET.
C2_DisallowedNeverFetched ==
    \A u \in GoodUrls :
        HostDisallows(u.host, CheckedPath(u)) =>
            /\ gets[u] = 0
            /\ (webPc = "returned" /\ curUrl = u) =>
                   /\ webRet = StrRet(DisallowedMsg(u))
                   /\ ~getIssued

\* C3 (as stated): at most one robots.txt request per host.
C3_AtMostOneRobotsFetchPerHost ==
    \A h \in Hosts : robotsFetches[h] <= 1

\* C3 (amended): every is_scraping_allowed call for a URL of host h sends one
\* robots.txt request to h; nothing is answered from a cache.
C3_OneRobotsFetchPerCheck ==
    \A h \in Hosts :
        robotsFetches[h] =
            checks[h] - (IF webPc = "robots_read" /\ curUrl.host = h THEN 1 ELSE 0)

C3_Witness ==
    \E h \in Hosts : checks[h] >= 2 /\ robotsFetches[h] >= 2

\* C10: when fetching or parsing robots.txt fails, is_scraping_allowed returns
\* True and the failure is logged.
C10_FailureDefaultsToAllowed ==
    (webPc = "decided" /\ ~curUrl.bad /\ RobotsFails(curUrl.host)) =>
        /\ allowed
        /\ log # <<>>
        /\ log[Len(log)] = LogEntry("robots_unreadable", curUrl)

\* the four failure kinds of the content GET
FailureKinds == {"Timeout", "HttpError", "UnsupportedContentType", "ParseFailure"}

\* the running call has returned after its content GET ended in one of them
ReturnedFailure ==
    /\ webPc = "returned"
    /\ getIssued
    /\ FaultOf(response) \in FailureKinds

\* C12 (as stated): the value scrape_website_text returns tells the four
\* failure kinds apart, and an HTTP error carries its status code: any
\* response of another kind, or with another status, would have returned a
\* different value.
C12_OutcomePerFailureKind ==
    ReturnedFailure =>
        \A r \in Responses :
            /\ (FaultOf(r) \in FailureKinds /\ FaultOf(r) # FaultOf(response))
                   => ScrapeOutcome(r) # webRet
            /\ (r.kind = "status" /\ response.kind = "status" /\ r.code # response.code)
                   => ScrapeOutcome(r) # webRet

\* C12 (amended): each of the four failure kinds returns None; the kinds
\* differ only in the message printed before the return.
C12_FailuresReturnNone ==
    ReturnedFailure =>
        /\ webRet = NoneRet
        /\ log # <<>>
        /\ log[Len(log)] = LogEntry(MessageOf(response), curUrl)
        /\ \A r \in Responses :
              (FaultOf(r) \in FailureKinds /\ FaultOf(r) # FaultOf(response))
                  => MessageOf(r) # MessageOf(response)

C12_Witness ==
    /\ ReturnedFailure
    /\ response.kind = "status"
    /\ response.code = NotFound
    /\ webRet = NoneRet

\* =====================================================================
\*  get_latest_news_text  (All.py)
\* =====================================================================
\* result links; "" is a result without a link
Links == {"u1", "u2"}
NoLink == ""

Max(a, b) == IF a > b THEN a ELSE b

\* s[:n]
Take(s, n) == SubSeq(s, 1, Min(n, Len(s)))

\* search_web_ddg (lines 9-43) on a provider stream: results are appended in
\* order and the loop breaks once i >= num_results - 1
SearchWebDdg(items, k) == Take(items, Max(k, 1))

\* a scraped text of n characters
Text(n) == [k \in 1..n |-> "x"]
Texts == {Text(n) : n \in 0..MaxText}

TruncationMarker == <<".", ".", ".">>

\* lines 170-172
Truncate_NoSlice(txt, max_chars) ==
    IF Len(txt) > max_chars
    THEN txt \o TruncationMarker
    ELSE txt
Truncate(txt, max_chars) ==
    IF Len(txt) > max_chars
    THEN Take(txt, max_chars) \o TruncationMarker
    ELSE Take(txt, max_chars)

\* line 155
EnoughArticles_OffByOne(count, target) == count > target
EnoughArticles(count, target) == count >= target

\* line 161: `if url and url not in urls_processed`
IsCandidate_NoDedup(url, seen) == url # NoLink
IsCandidate(url, seen) == url # NoLink /\ url \notin seen

\* lines 187-192: None when nothing was collected, else the combined text
\* (strip() only removes the blank lines after the last separator)
Combined_NeverNone(count, arts) == [isNone |-> FALSE, articles |-> arts]
Combined(count, arts) ==
    IF count = 0 THEN [isNone |-> TRUE, articles |-> <<>>]
    ELSE [isNone |-> FALSE, articles |-> arts]

\* what All.py's scrape_website_text (lines 47-120) can return: None, or
\* the cleaned text, which may be empty (lines 103-108 return it anyway)
ScrapeResults == {NoneRet} \cup {StrRet(t) : t \in Texts}

\* line 168: `if scraped_content:`
Truthy_NotNone(v) == ~v.isNone
Truthy(v) == ~v.isNone /\ v.s # <<>>

\* lines 180 and 182: the line printed once an attempt is over
Attempt(u, ok) == [url |-> u, added |-> ok]

ColInit ==
    /\ num_articles \in 0..MaxArticles
    /\ max_chars_per_article \in 0..MaxChars
    /\ search_results = <<>>
    /\ pos = 1
    /\ articles = <<>>
    /\ articles_processed_count = 0
    /\ urls_processed = {}
    /\ colRet = [isNone |-> TRUE, articles |-> <<>>]
    /\ colPc = "search"
    /\ fetchCount = [u \in Links |-> 0]
    /\ scraped_content = NoneRet
    /\ sleeps = 0
    /\ attempts = <<>>

\* line 142: the provider answers with a stream of results, or fails
ColSearch ==
    /\ colPc = "search"
    /\ \E items \in BoundedSeq(Links \cup {NoLink}, MaxStream) :
          search_results' = SearchWebDdg(items, num_articles + 2)
    /\ colPc' = "searched"
    /\ UNCHANGED <<num_articles, max_chars_per_article, pos, articles,
                   articles_processed_count, urls_processed, colRet, fetchCount,
                   scraped_content, sleeps, attempts>>
    /\ UNCHANGED notCol

\* lines 144-146
ColNoResults ==
    /\ colPc = "searched"
    /\ search_results = <<>>
    /\ colRet' = [isNone |-> TRUE, articles |-> <<>>]
    /\ colPc' = "done"
    /\ UNCHANGED <<num_articles, max_chars_per_article, search_results, pos,
                   articles, articles_processed_count, urls_processed, fetchCount,
                   scraped_content, sleeps, attempts>>
    /\ UNCHANGED notCol

\* lines 148-152
ColStartLoop ==
    /\ colPc = "searched"
    /\ search_results # <<>>
    /\ articles' = <<>>
    /\ articles_processed_count' = 0
    /\ urls_processed' = {}
    /\ pos' = 1
    /\ colPc' = "loop"
    /\ UNCHANGED <<num_articles, max_chars_per_article, search_results, colRet,
                   fetchCount, scraped_content, sleeps, attempts>>
    /\ UNCHANGED notCol

\* lines 155-156: break
ColBreak ==
    /\ colPc = "loop"
    /\ pos <= Len(search_results)
    /\ EnoughArticles(articles_processed_count, num_articles)
    /\ colPc' = "after"
    /\ UNCHANGED <<num_articles, max_chars_per_article, search_results, pos,
                   articles, articles_processed_count, urls_processed, colRet,
                   fetchCount, scraped_content, sleeps, attempts>>
    /\ UNCHANGED notCol

\* lines 183-185: no link, or link already attempted
ColSkip ==
    /\ colPc = "loop"
    /\ pos <= Len(search_results)
    /\ ~EnoughArticles(articles_processed_count, num_articles)
    /\ ~IsCandidate(search_results[pos], urls_processed)
    /\ pos' = pos + 1
    /\ UNCHANGED <<num_articles, max_chars_per_article, search_results,
                   articles, articles_processed_count, urls_processed, colRet,
                   colPc, fetchCount, scraped_content, sleeps, attempts>>
    /\ UNCHANGED notCol

\* lines 161-165: the URL is marked as attempted, then time.sleep(0.5)
ColAttempt_NoDelay ==
    /\ colPc = "loop"
    /\ pos <= Len(search_results)
    /\ ~EnoughArticles(articles_processed_count, num_articles)
    /\ IsCandidate(search_results[pos], urls_processed)
    /\ urls_processed' = urls_processed \cup {search_results[pos]}
    /\ colPc' = "scrape"
    /\ UNCHANGED <<num_articles, max_chars_per_article, search_results, pos,
                   articles, articles_processed_count, colRet, fetchCount,
                   scraped_content, sleeps, attempts>>
    /\ UNCHANGED notCol
ColAttempt ==
    /\ colPc = "loop"
    /\ pos <= Len(search_results)
    /\ ~EnoughArticles(articles_processed_count, num_articles)
    /\ IsCandidate(search_results[pos], urls_processed)
    /\ urls_processed' = urls_processed \cup {search_results[pos]}
    /\ sleeps' = sleeps + 1
    /\ colPc' = "scrape"
    /\ UNCHANGED <<num_articles, max_chars_per_article, search_results, pos,
                   articles, articles_processed_count, colRet, fetchCount,
                   scraped_content, attempts>>
    /\ UNCHANGED notCol

\* line 166: scraped_content = scrape_website_text(url)
ColScrape ==
    /\ colPc = "scrape"
    /\ fetchCount' = [fetchCount EXCEPT ![search_results[pos]] = @ + 1]
    /\ \E v \in ScrapeResults : scraped_content' = v
    /\ colPc' = "scraped"
    /\ UNCHANGED <<num_articles, max_chars_per_article, search_results, pos,
                   articles, articles_processed_count, urls_processed, colRet,
                   sleeps, attempts>>
    /\ UNCHANGED notCol

\* lines 168-180: the scrape gave a non-empty text
ColScrapeOk ==
    /\ colPc = "scraped"
    /\ Truthy(scraped_content)
    /\ LET url == search_results[pos] IN
          /\ articles' = Append(articles,
                [url |-> url,
                 text |-> Truncate(scraped_content.s, max_chars_per_article)])
          /\ attempts' = Append(attempts, Attempt(url, TRUE))
    /\ articles_processed_count' = articles_processed_count + 1
    /\ pos' = pos + 1
    /\ colPc' = "loop"
    /\ UNCHANGED <<num_articles, max_chars_per_article, search_results,
                   urls_processed, colRet, fetchCount, scraped_content, sleeps>>
    /\ UNCHANGED notCol

\* lines 181-182: the scrape gave None or '', the loop goes on
ColScrapeFailed_Abort ==
    /\ colPc = "scraped"
    /\ ~Truthy(scraped_content)
    /\ attempts' = Append(attempts, Attempt(search_results[pos], FALSE))
    /\ pos' = pos + 1
    /\ colPc' = "after"
    /\ UNCHANGED <<num_articles, max_chars_per_article, search_results,
                   articles, articles_processed_count, urls_processed, colRet,
                   fetchCount, scraped_content, sleeps>>
    /\ UNCHANGED notCol
ColScrapeFailed ==
    /\ colPc = "scraped"
    /\ ~Truthy(scraped_content)
    /\ attempts' = Append(attempts, Attempt(search_results[pos], FALSE))
    /\ pos' = pos + 1
    /\ colPc' = "loop"
    /\ UNCHANGED <<num_articles, max_chars_per_article, search_results,
                   articles, articles_processed_count, urls_processed, colRet,
                   fetchCount, scraped_content, sleeps>>
    /\ UNCHANGED notCol

\* line 154: the list is exhausted
ColExhausted ==
    /\ colPc = "loop"
    /\ pos > Len(search_results)
    /\ colPc' = "after"
    /\ UNCHANGED <<num_articles, max_chars_per_article, search_results, pos,
                   articles, articles_processed_count, urls_processed, colRet,
                   fetchCount, scraped_content, sleeps, attempts>>
    /\ UNCHANGED notCol

\* lines 187-192
ColReturn ==
    /\ colPc = "after"
    /\ colRet' = Combined(articles_processed_count, articles)
    /\ colPc' = "done"
    /\ UNCHANGED <<num_articles, max_chars_per_article, search_results, pos,
                   articles, articles_processed_count, urls_processed, fetchCount,
                   scraped_content, sleeps, attempts>>
    /\ UNCHANGED notCol

ColNext ==
    \/ ColSearch
    \/ ColNoResults
    \/ ColStartLoop
    \/ ColBreak
    \/ ColSkip
    \/ ColAttempt
    \/ ColScrape
    \/ ColScrapeOk
    \/ ColScrapeFailed
    \/ ColExhausted
    \/ ColReturn

\* C4: the number of collected articles never exceeds num_articles.
C4_CountAtMostTarget ==
    colPc # "off" =>
        /\ articles_processed_count <= num_articles
        /\ Len(articles) <= num_articles
        /\ Len(colRet.articles) <= num_articles

C4_Witness ==
    /\ colPc = "after"
    /\ num_articles >= 1
    /\ articles_processed_count = num_articles
    /\ pos <= Len(search_results)
    /\ IsCandidate(search_results[pos], urls_processed)

\* C5 (as stated): every article text is at most max_chars_per_article long.
C5_TextAtMostMaxChars ==
    \A k \in 1..Len(articles) :
        Len(articles[k].text) <= max_chars_per_article

\* C5 (amended): an article text is at most max_chars_per_article + 3 long;
\* it is longer than max_chars_per_article only when it was cut, and then it
\* is max_chars_per_article characters followed by the marker "...".
C5_TextAtMostMaxCharsPlusMarker ==
    \A k \in 1..Len(articles) :
        LET t == articles[k].text IN
        /\ Len(t) <= max_chars_per_article + Len(TruncationMarker)
        /\ Len(t) > max_chars_per_article =>
              /\ Len(t) = max_chars_per_article + Len(TruncationMarker)
              /\ SubSeq(t, max_chars_per_article + 1, Len(t)) = TruncationMarker

C5_Witness ==
    /\ colPc = "done"
    /\ ~colRet.isNone
    /\ \E k \in 1..Len(colRet.articles) :
          Len(colRet.articles[k].text) = max_chars_per_article + 3

\* C6: in one run every URL is scraped at most once and is the source of at
\* most one article, also when search_results repeats it.
C6_EachUrlOnce ==
    /\ \A u \in Links : fetchCount[u] <= 1
    /\ \A j, k \in 1..Len(articles) :
          articles[j].url = articles[k].url => j = k
    /\ \A u \in Links :
          u \in urls_processed <=>
              \/ fetchCount[u] = 1
              \/ colPc = "scrape" /\ u = search_results[pos]

C6_Witness ==
    /\ colPc = "done"
    /\ \E j, k \in 1..Len(search_results) :
          /\ j < k /\ k < pos
          /\ search_results[j] = search_results[k]
          /\ search_results[j] # NoLink
          /\ fetchCount[search_results[j]] = 1
          /\ \A a \in 1..Len(articles) : articles[a].url # search_results[j]

\* C7 (as stated): with no hit or no successful scrape the result is an
\* empty but valid article set, not None.
C7_EmptyButValidResult ==
    (colPc = "done" /\ articles_processed_count = 0) =>
        /\ ~colRet.isNone
        /\ colRet.articles = <<>>

\* C7 (amended): with no hit or no successful scrape the result is None, and
\* no article was collected.
C7_NoneWhenNothingCollected ==
    (colPc = "done" /\ (search_results = <<>> \/ articles_processed_count = 0)) =>
        /\ colRet.isNone
        /\ colRet.articles = <<>>
        /\ articles_processed_count = 0

C7_Witness ==
    /\ colPc = "done"
    /\ num_articles >= 1
    /\ \E u \in Links : fetchCount[u] = 1
    /\ articles_processed_count = 0
    /\ colRet.isNone

\* the host of a result link
LinkHost(u) == IF u = "u1" THEN "h1" ELSE "h2"

\* C16: every content GET of a get_latest_news_text run is behind the robots
\* check: a URL is scraped only after is_scraping_allowed has been called for
\* its host.  (All.py's scrape_website_text sends its GET at once, line 65,
\* so a scrape call is a GET.)
C16_EveryGetBehindRobotsCheck ==
    \A u \in Links : fetchCount[u] > 0 => checks[LinkHost(u)] > 0

\* the k-th result is a candidate when the loop reaches it
\* (it has a link that no earlier result has)
FirstOccurrence(k) ==
    /\ search_results[k] # NoLink
    /\ \A j \in 1..(k - 1) : search_results[j] # search_results[k]

\* the loop is at or past its end
LoopOver == colPc \in {"after", "done"} /\ search_results # <<>>

C17_LoopInvariant ==
    /\ colPc \in {"loop", "scrape", "scraped", "after", "done"} =>
          \* the results before pos were taken in order: each candidate of
          \* them was attempted, success or not
          /\ \A k \in 1..(pos - 1) :
                FirstOccurrence(k) =>
                    \E a \in 1..Len(attempts) : attempts[a].url = search_results[k]
          /\ \A a, b \in 1..Len(attempts) :
                a < b =>
                    \E j, k \in 1..(pos - 1) :
                        /\ j < k
                        /\ attempts[a].url = search_results[j]
                        /\ attempts[b].url = search_results[k]
    /\ LoopOver =>
          \/ articles_processed_count >= num_articles
          \/ pos > Len(search_results)

C17_FetchStep ==
    fetchCount' # fetchCount =>
        /\ articles_processed_count < num_articles
        /\ pos <= Len(search_results)
        /\ FirstOccurrence(pos)
        /\ fetchCount' = [fetchCount EXCEPT ![search_results[pos]] = @ + 1]

\* C17: a failed fetch does not end the loop, the next unseen candidate is
\* attempted in the order of search_results; no fetch is made once
\* num_articles articles are collected; otherwise the loop ends only when
\* search_results is exhausted; and the run always terminates.
C17_SkipFailedStopAtTarget ==
    /\ []C17_LoopInvariant
    /\ [][C17_FetchStep]_vars
    /\ <>(colPc = "done")

C17_Witness ==
    /\ colPc = "done"
    /\ Len(attempts) = 2
    /\ ~attempts[1].added
    /\ attempts[2].added
    /\ articles_processed_count = num_articles

\* an attempt is over and its scrape result is still in scraped_content
AttemptOver == attempts # <<>> /\ colPc \notin {"scrape", "scraped"}

\* C18 (as stated): every scrape that returns a text, whatever its length
\* (the empty text included), is appended as an article and never counted
\* as failed.
C18_EverySuccessAppended ==
    (AttemptOver /\ ~scraped_content.isNone) =>
        attempts[Len(attempts)].added

\* C18 (amended): a scrape that returns a non-empty text, however short, is
\* appended as an article; a scrape that returns the empty text is counted
\* as failed, like None.
C18_NonEmptySuccessAppended ==
    AttemptOver =>
        LET last == attempts[Len(attempts)] IN
        /\ last.added <=> (~scraped_content.isNone /\ scraped_content.s # <<>>)
        /\ last.added =>
              /\ articles # <<>>
              /\ articles[Len(articles)] =
                    [url |-> last.url,
                     text |-> Truncate(scraped_content.s, max_chars_per_article)]
        /\ ~last.added =>
              \A k \in 1..Len(articles) : articles[k].url # last.url

C18_Witness ==
    /\ AttemptOver
    /\ scraped_content = StrRet(<<>>)
    /\ ~attempts[Len(attempts)].added
    /\ \E a \in 1..Len(attempts) :
          attempts[a].added /\ Len(articles[1].text) = 1

\* scrape_website_text calls made so far in the run
RECURSIVE SumFetches(_)
SumFetches(S) ==
    IF S = {} THEN 0
    ELSE LET u == CHOOSE x \in S : TRUE IN fetchCount[u] + SumFetches(S \ {u})

\* C19: the delay precedes every fetch of a run: each scrape call comes
\* after a time.sleep(0.5) of its own, so any two fetches have a delay
\* between them.
C19_DelayBeforeEveryFetch ==
    colPc # "off" =>
        sleeps = SumFetches(Links) + (IF colPc = "scrape" THEN 1 ELSE 0)

C19_Witness ==
    /\ colPc = "scraped"
    /\ SumFetches(Links) = 2
    /\ sleeps = 2

\* =====================================================================
\*  search_web_ddg  (All.py lines 9-43; DuckSearch.py holds the same code)
\* =====================================================================
\* line 37: `if i >= num_results - 1: break`
BreakAfter(idx, k) == idx >= k - 1

\* line 41: `except Exception` takes every exception the provider raises
SearchCatches(e) == e = "Exception"

DdgInit ==
    /\ num_results \in 0..MaxNumResults
    /\ stream \in BoundedSeq(Links \cup {NoLink}, MaxStream)
    /\ failAt \in 0..(MaxStream + 1)
    /\ failAt <= Len(stream) + 1
    /\ results = <<>>
    /\ ddgI = 0
    /\ ddgRet = <<>>
    /\ ddgPc = "iter"

\* lines 28-38: one round of the for loop
DdgNextItem ==
    /\ ddgPc = "iter"
    /\ ddgI < Len(stream)
    /\ failAt # ddgI + 1
    /\ results' = Append(results, stream[ddgI + 1])
    /\ IF BreakAfter(ddgI, num_results)
       THEN ddgPc' = "return" /\ UNCHANGED ddgI
       ELSE ddgI' = ddgI + 1 /\ UNCHANGED ddgPc
    /\ UNCHANGED <<num_results, stream, failAt, ddgRet>>
    /\ UNCHANGED notDdg

\* line 28: the iterator is exhausted
DdgExhausted ==
    /\ ddgPc = "iter"
    /\ ddgI = Len(stream)
    /\ failAt # ddgI + 1
    /\ ddgPc' = "return"
    /\ UNCHANGED <<num_results, stream, failAt, results, ddgI, ddgRet>>
    /\ UNCHANGED notDdg

\* lines 25-28: DDGS(), ddgs.text or the iterator raises
DdgProviderError ==
    /\ ddgPc = "iter"
    /\ failAt = ddgI + 1
    /\ ddgPc' = IF SearchCatches("Exception") THEN "except" ELSE "raised"
    /\ UNCHANGED <<num_results, stream, failAt, results, ddgI, ddgRet>>
    /\ UNCHANGED notDdg

\* lines 39-40
DdgReturn ==
    /\ ddgPc = "return"
    /\ ddgRet' = results
    /\ ddgPc' = "done"
    /\ UNCHANGED <<num_results, stream, failAt, results, ddgI>>
    /\ UNCHANGED notDdg

\* lines 41-43
DdgExcept ==
    /\ ddgPc = "except"
    /\ ddgRet' = <<>>
    /\ ddgPc' = "done"
    /\ UNCHANGED <<num_results, stream, failAt, results, ddgI>>
    /\ UNCHANGED notDdg

DdgNext ==
    \/ DdgNextItem
    \/ DdgExhausted
    \/ DdgProviderError
    \/ DdgReturn
    \/ DdgExcept

\* the provider raised during this call
DdgFailed == failAt = ddgI + 1 /\ Len(results) = ddgI

\* C20: search_web_ddg returns at most num_results results, in the
\* provider's order, for every num_results >= 0; on a provider error it
\* returns the empty list.
C20_AtMostNumResults ==
    ddgPc = "done" =>
        /\ Len(ddgRet) <= num_results
        /\ Len(ddgRet) <= Len(stream)
        /\ ddgRet = SubSeq(stream, 1, Len(ddgRet))
        /\ DdgFailed => ddgRet = <<>>

\* =====================================================================
\*  is_scraping_allowed called from several threads  (WebScraperTool.py)
\* =====================================================================
\* rp is one module-level object (line 14) and nothing locks it: the calls
\* of two threads interleave between set_url, read and can_fetch.
Threads == {"t1", "t2"}

\* the web variables the robots check does not touch
webIdle == <<curUrl, allowed, webRet, webPc, calls, gets, getIssued, response>>

ConInit ==
    /\ rp = FreshParser
    /\ site \in [Hosts -> RobotsResponses]
    /\ curUrl = BadUrl /\ allowed = FALSE /\ webRet = NoneRet /\ webPc = "off"
    /\ calls = 0 /\ checks = [h \in Hosts |-> 0]
    /\ robotsFetches = [h \in Hosts |-> 0] /\ gets = [u \in Urls |-> 0]
    /\ getIssued = FALSE /\ response = NoResponse /\ log = <<>>
    /\ thrUrl \in [Threads -> GoodUrls]
    /\ thrPc = [t \in Threads |-> "set_url"]
    /\ thrAllowed = [t \in Threads |-> FALSE]

\* lines 27-34: urlparse and rp.set_url(robots_url)
ThrSetUrl(t) ==
    /\ thrPc[t] = "set_url"
    /\ rp' = SetUrl(rp, thrUrl[t].host)
    /\ checks' = [checks EXCEPT ![thrUrl[t].host] = @ + 1]
    /\ thrPc' = [thrPc EXCEPT ![t] = "read"]
    /\ UNCHANGED <<site, robotsFetches, log, thrUrl, thrAllowed>>
    /\ UNCHANGED webIdle
    /\ UNCHANGED notCon

\* lines 38-45: rp.read() fetches the URL that rp holds at this moment
ThrRead(t) ==
    /\ thrPc[t] = "read"
    /\ robotsFetches' = [robotsFetches EXCEPT ![rp.host] = @ + 1]
    /\ IF ReadRaises(site[rp.host])
       THEN /\ log' = Append(log, LogEntry("robots_unreadable", thrUrl[t]))
            /\ thrAllowed' = [thrAllowed EXCEPT ![t] = TRUE]
            /\ thrPc' = [thrPc EXCEPT ![t] = "done"]
            /\ UNCHANGED rp
       ELSE /\ rp' = ReadParser(rp, site[rp.host])
            /\ thrPc' = [thrPc EXCEPT ![t] = "can_fetch"]
            /\ UNCHANGED <<log, thrAllowed>>
    /\ UNCHANGED <<site, checks, thrUrl>>
    /\ UNCHANGED webIdle
    /\ UNCHANGED notCon

\* lines 48-57
ThrCanFetch(t) ==
    /\ thrPc[t] = "can_fetch"
    /\ thrAllowed' = [thrAllowed EXCEPT ![t] = CanFetch(rp, CheckedPath(thrUrl[t]))]
    /\ log' = IF thrAllowed'[t] THEN log
              ELSE Append(log, LogEntry("disallowed", thrUrl[t]))
    /\ thrPc' = [thrPc EXCEPT ![t] = "done"]
    /\ UNCHANGED <<rp, site, checks, robotsFetches, thrUrl>>
    /\ UNCHANGED webIdle
    /\ UNCHANGED notCon

ConNext ==
    \E t \in Threads :
        \/ ThrSetUrl(t)
        \/ ThrRead(t)
        \/ ThrCanFetch(t)

\* is_scraping_allowed(u) on a parser that has seen nothing but u's host
OwnHostDecision(u) ==
    IF ReadRaises(site[u.host]) THEN TRUE
    ELSE CanFetch(ReadParser(SetUrl(FreshParser, u.host), site[u.host]),
                  CheckedPath(u))

\* C15: under concurrent is_scraping_allowed calls each call's decision is
\* the one its own host's robots rules give, and no host is asked for its
\* robots.txt twice.
C15_ConcurrentChecksAreSafe ==
    /\ \A t \in Threads :
          thrPc[t] = "done" => thrAllowed[t] = OwnHostDecision(thrUrl[t])
    /\ \A h \in Hosts : robotsFetches[h] <= 1

\* =====================================================================
\*  scrape_webpages  (WebScraperTool.py lines 155-179)
\* =====================================================================
\* the URLs and robots.txt answers tried: one host, two of its paths, and a
\* URL that urlparse rejects
PgUrls == {u \in Urls : u.bad \/ (u.host = "h1" /\ u.path # <<>>)}
PgSites == {s \in [Hosts -> RobotsResponses] : s["h2"] = s["h1"]}

\* the pieces of text that have "disallowed by robots.txt" in them
PhrasePieces == {" is disallowed by robots.txt.", QuoteNode}

\* `"disallowed by robots.txt" in content`
HasDisallowedPhrase(t) == \E k \in 1..Len(t) : t[k] \in PhrasePieces

\* lines 167-172: the three branches on content
SectionKind(v) ==
    IF Truthy(v) /\ ~HasDisallowedPhrase(v.s) THEN "Content from"
    ELSE IF Truthy(v) /\ HasDisallowedPhrase(v.s) THEN "Scraping disallowed for"
    ELSE "Failed to scrape content from"

\* one element of results; only a 'Content from' section has a body
Section(kind, u, v) ==
    [kind |-> kind, url |-> u,
     body |-> IF kind = "Content from" THEN v.s ELSE <<>>]

\* how the scrape_website_text call that has just returned ended
FetchOutcome ==
    IF ~allowed THEN "Disallowed"
    ELSE IF FaultOf(response) # "none" THEN "Failure"
    ELSE IF webRet.s = <<>> THEN "EmptyText"
    ELSE "Text"

\* lines 176-179
PagesOutput(rs) ==
    IF rs = <<>> THEN [note |-> TRUE, sections |-> <<>>]
    ELSE [note |-> FALSE, sections |-> rs]

PgInit ==
    /\ site \in PgSites
    /\ urls \in BoundedSeq(PgUrls, MaxUrls)
    /\ url_idx = 1
    /\ content = NoneRet
    /\ page_results = <<>>
    /\ outcomes = <<>>
    /\ pgRet = [note |-> FALSE, sections |-> <<>>]
    /\ pgPc = "loop"

\* lines 164-166: the next URL is handed to scrape_website_text
PgCall ==
    /\ pgPc = "loop"
    /\ url_idx <= Len(urls)
    /\ EnterScrape(urls[url_idx])
    /\ pgPc' = "scraping"
    /\ UNCHANGED <<urls, url_idx, content, page_results, outcomes, pgRet>>
    /\ UNCHANGED notPg

\* lines 166-172: the call has returned, its section is appended
PgAppend ==
    /\ pgPc = "scraping"
    /\ webPc = "returned"
    /\ content' = webRet
    /\ page_results' = Append(page_results,
                           Section(SectionKind(webRet), urls[url_idx], webRet))
    /\ outcomes' = Append(outcomes, FetchOutcome)
    /\ url_idx' = url_idx + 1
    /\ pgPc' = "loop"
    /\ UNCHANGED <<urls, pgRet>>
    /\ UNCHANGED webVars
    /\ UNCHANGED notPg

\* lines 174-179
PgReturn ==
    /\ pgPc = "loop"
    /\ url_idx > Len(urls)
    /\ pgRet' = PagesOutput(page_results)
    /\ pgPc' = "done"
    /\ UNCHANGED <<urls, url_idx, content, page_results, outcomes>>
    /\ UNCHANGED webVars
    /\ UNCHANGED notPg

PgNext ==
    \/ PgCall
    \/ RobotsRead
    \/ RobotsCanFetch
    \/ ReturnDisallowed
    \/ ContentGet
    \/ ReturnText
    \/ ReturnNone
    \/ PgAppend
    \/ PgReturn

\* C21: scrape_webpages emits one section per input URL, in input order, and
\* the kind of each section is the outcome of its fetch: 'Content from' iff
\* the fetch gave text, 'Scraping disallowed' iff the robots check denied the
\* URL, 'Failed to scrape' otherwise, whatever the text of the page says.
C21_SectionMatchesOutcome ==
    /\ \A k \in 1..Len(page_results) :
          /\ page_results[k].url = urls[k]
          /\ page_results[k].kind = "Content from" <=> outcomes[k] = "Text"
          /\ page_results[k].kind = "Scraping disallowed for"
                <=> outcomes[k] = "Disallowed"
          /\ page_results[k].kind = "Failed to scrape content from"
                <=> outcomes[k] \in {"Failure", "EmptyText"}
    /\ pgPc = "done" =>
          /\ pgRet.sections = page_results
          /\ Len(pgRet.sections) = Len(urls)

\* C11: no fault crosses the boundary of scrape_website_text or of
\* search_web_ddg as an exception: neither call is ever left by a raise.
C11_NoExceptionCrossesBoundary ==
    /\ webPc # "raised"
    /\ ddgPc # "raised"

C11_Witness ==
    /\ webPc = "returned"
    /\ getIssued
    /\ RaisedBy(response) = "Exception"
    /\ webRet = NoneRet

\* =====================================================================
AggOff ==
    /\ queryList = <<>> /\ Headline = <<>> /\ AdvSearch = <<>> /\ min_len = 0
    /\ i = 0 /\ output = <<>> /\ failedQ = {} /\ aggPc = "off" /\ aggRet = <<>>

WebOff ==
    /\ rp = FreshParser /\ site = [h \in Hosts |-> CHOOSE r \in RobotsResponses : TRUE]
    /\ curUrl = BadUrl /\ allowed = FALSE /\ webRet = NoneRet /\ webPc = "off"
    /\ calls = 0 /\ checks = [h \in Hosts |-> 0]
    /\ robotsFetches = [h \in Hosts |-> 0] /\ gets = [u \in Urls |-> 0]
    /\ getIssued = FALSE /\ response = NoResponse /\ log = <<>>

ExtOff ==
    /\ doc = {} /\ tree = {} /\ region = "none" /\ extRet = NoneRet /\ extPc = "off"

DdgOff ==
    /\ num_results = 0 /\ stream = <<>> /\ failAt = 0 /\ results = <<>>
    /\ ddgI = 0 /\ ddgRet = <<>> /\ ddgPc = "off"

ConOff ==
    /\ thrUrl = <<>> /\ thrPc = <<>> /\ thrAllowed = <<>>

PgOff ==
    /\ urls = <<>> /\ url_idx = 1 /\ content = NoneRet /\ page_results = <<>>
    /\ outcomes = <<>> /\ pgRet = [note |-> FALSE, sections |-> <<>>]
    /\ pgPc = "off"

ColOff ==
    /\ num_articles = 0 /\ max_chars_per_article = 0 /\ search_results = <<>>
    /\ pos = 1 /\ articles = <<>> /\ articles_processed_count = 0
    /\ urls_processed = {} /\ colRet = [isNone |-> TRUE, articles |-> <<>>]
    /\ colPc = "off" /\ fetchCount = [u \in Links |-> 0]
    /\ scraped_content = NoneRet /\ sleeps = 0 /\ attempts = <<>>

InitAgg == AggInit /\ WebOff /\ ColOff /\ ExtOff /\ DdgOff /\ ConOff /\ PgOff
SpecAgg == InitAgg /\ [][AggNext]_vars

InitWeb == WebInit /\ AggOff /\ ColOff /\ ExtOff /\ DdgOff /\ ConOff /\ PgOff
SpecWeb == InitWeb /\ [][WebNext]_vars
InitCol == ColInit /\ AggOff /\ WebOff /\ ExtOff /\ DdgOff /\ ConOff /\ PgOff
SpecCol == InitCol /\ [][ColNext]_vars
\* the run is not suspended for ever: some step is taken while one is enabled
SpecColFair == InitCol /\ [][ColNext]_vars /\ WF_vars(ColNext)
InitExt == ExtInit /\ AggOff /\ WebOff /\ ColOff /\ DdgOff /\ ConOff /\ PgOff
SpecExt == InitExt /\ [][ExtNext]_vars
InitDdg == DdgInit /\ AggOff /\ WebOff /\ ColOff /\ ExtOff /\ ConOff /\ PgOff
SpecDdg == InitDdg /\ [][DdgNext]_vars

\* scrape_website_text and search_web_ddg, one call sequence of either
InitBoundary == InitWeb \/ InitDdg
BoundaryNext == WebNext \/ DdgNext
SpecBoundary == InitBoundary /\ [][BoundaryNext]_vars
InitCon == ConInit /\ AggOff /\ ColOff /\ ExtOff /\ DdgOff /\ PgOff
SpecCon == InitCon /\ [][ConNext]_vars
InitPages == WebInit /\ PgInit /\ AggOff /\ ColOff /\ ExtOff /\ DdgOff /\ ConOff
SpecPages == InitPages /\ [][PgNext]_vars

====
